---- MODULE Spec2Model ----
(***************************************************************************)
(* Model of ftp_to_sheets.py: one run of main() against a remote FTP       *)
(* directory and a Google Sheets worksheet.                                *)
(*                                                                         *)
(* A filename is the sequence of its code points, so that splitext,        *)
(* lower() and Python's string ordering are computed and not assumed.      *)
(* A cell value is a record [k, a, b, n]; the empty string '' is Blank.    *)
(* The worksheet grid is (rows, cols) plus the map of its non-blank cells. *)
(***************************************************************************)
EXTENDS Integers, Sequences, FiniteSets, TLC

VARIABLES pc, names, candidates, newest, filename, data, parsed, df, values,
          ws, ws0, prev, now, ops

vars == <<pc, names, candidates, newest, filename, data, parsed, df, values,
          ws, ws0, prev, now, ops>>

(* ------------------------------ bounds -------------------------------- *)
\* largest modification time a server reports, in ticks after datetime.min
MaxTime == 1
\* data rows of the ordinary tables
MaxRows == 2
\* data rows of the long table (more than the 100 rows of a created sheet)
BigRows == 90
\* columns of the narrow tables
SmallCols == 2
\* columns a table, or an existing worksheet, may have beyond column Z
ExtraCols == 1
\* display times the clock may show
MaxNow == 1

(* ------------------------- program constants -------------------------- *)
MAX_COLS == 26
\* datetime.min, the stand-in key of a file without modification time
DatetimeMin == 0
\* rows of a created worksheet: max(100, len(values) + 10)
CreateMinRows == 100
CreatePadRows == 10

(* ------------------------------ values -------------------------------- *)
V(k, a, b, n) == [k |-> k, a |-> a, b |-> b, n |-> n]
Blank == V("", 0, 0, <<>>)
NoName == <<>>
None == <<>>

Min(x, y) == IF x <= y THEN x ELSE y
Max(x, y) == IF x >= y THEN x ELSE y

(* ----------------------------- filenames ------------------------------ *)
NameDot    == <<46>>
NameDotDot == <<46, 46>>
NameA      == <<97, 46, 99, 115, 118>>
NameB      == <<98, 46, 88, 76, 83, 88>>
NameC      == <<99, 46, 116, 120, 116>>
NameD      == <<100, 46, 112, 100, 102>>
AllNames   == {NameDot, NameDotDot, NameA, NameB, NameC, NameD}

ExtCsv  == <<46, 99, 115, 118>>
ExtTxt  == <<46, 116, 120, 116>>
ExtXls  == <<46, 120, 108, 115>>
ExtXlsx == <<46, 120, 108, 115, 120>>

\* str.lower() on ASCII
Lower(s) == [i \in 1..Len(s) |-> IF s[i] \in 65..90 THEN s[i] + 32 ELSE s[i]]

\* os.path.splitext(n)[1]: the suffix from the last dot, unless only dots
\* precede it
SplitExt(n) ==
  LET dots == {i \in 1..Len(n) : n[i] = 46}
      d == IF dots = {} THEN 0 ELSE CHOOSE i \in dots : \A j \in dots : j <= i
  IN IF d > 0 /\ (\E i \in 1..(d - 1) : n[i] # 46)
       THEN SubSeq(n, d, Len(n))
       ELSE <<>>

\* Python's < on str
LexLess(x, y) ==
  \E i \in 1..(Min(Len(x), Len(y)) + 1) :
     /\ \A j \in 1..(i - 1) : x[j] = y[j]
     /\ \/ i > Len(x) /\ i <= Len(y)
        \/ i <= Len(x) /\ i <= Len(y) /\ x[i] < y[i]

\* s[:n + 1]
TakeOneMore(s, n) == SubSeq(s, 1, Min(Len(s), n + 1))

\* s[:n]
Take(s, n) == SubSeq(s, 1, Min(Len(s), n))

(* ------------------------- latest-file choice ------------------------- *)
\* a candidate is <<name, mdtm, size>>; mdtm is None or <<t>>
Truthy(m) == m # None

\* key=lambda t: (t[1] or datetime.min, t[0])
SortKey(c) == <<IF Truthy(c[2]) THEN c[2][1] ELSE DatetimeMin, c[1]>>

KeyLess(k1, k2) == k1[1] < k2[1] \/ (k1[1] = k2[1] /\ LexLess(k1[2], k2[2]))

\* lines 116-119
SelectLatest(cands) ==
  IF \E c \in cands : Truthy(c[2])
    THEN CHOOSE c \in cands : \A d \in cands : ~KeyLess(SortKey(c), SortKey(d))
    ELSE CHOOSE c \in cands : \A d \in cands : ~LexLess(c[1], d[1])

(* ------------------------------- tables ------------------------------- *)
\* column label j as the parser gives it: a string, or a number
Label(j) == V(IF j % 2 = 0 THEN "num" ELSE "str", 0, j, <<>>)

\* data cell (i, j) as the parser gives it; some cells are NaN or infinite
RawCell(i, j) ==
  LET r == (i + j) % 7
  IN V(IF r = 0 THEN "nan" ELSE IF r = 3 THEN "inf"
       ELSE IF r = 5 THEN "-inf" ELSE "cell", i, j, <<>>)

\* the DataFrame parsed from a file of nr data rows and nc columns
MkTable(nr, nc) ==
  [hdr  |-> [j \in 1..nc |-> Label(j)],
   rows |-> [i \in 1..nr |-> [j \in 1..nc |-> RawCell(i, j)]]]

NoTable == [hdr |-> <<>>, rows |-> <<>>]

Shapes == {<<0, SmallCols>>, <<MaxRows, MAX_COLS>>,
           <<MaxRows, MAX_COLS + ExtraCols>>, <<BigRows, SmallCols>>}

\* the bytes of a file, by what each parser makes of them
DataSet ==
  {[csv |-> o[1], latin1 |-> o[2], excel |-> e, nr |-> s[1], nc |-> s[2]] :
     o \in {<<TRUE, TRUE>>, <<FALSE, TRUE>>, <<FALSE, FALSE>>},
     e \in BOOLEAN, s \in Shapes}

NoData == [csv |-> FALSE, latin1 |-> FALSE, excel |-> FALSE, nr |-> 0, nc |-> 0]

(* ------------------------- load_df_from_bytes ------------------------- *)
\* lines 38-47: the reader the extension selects
FirstReader(fn) ==
  LET ext == Lower(SplitExt(fn))
  IN IF ext \in {ExtCsv, ExtTxt} THEN "read_csv"
     ELSE IF ext \in {ExtXls, ExtXlsx} THEN "read_excel"
     ELSE "read_csv"

ReaderOk(r, d) ==
  IF r = "read_excel" THEN d.excel
  ELSE IF r = "read_csv_latin1" THEN d.latin1
  ELSE d.csv

\* lines 36-54: the calls made, in order, and whether a DataFrame comes back
load_df_from_bytes(fn, d) ==
  LET first == FirstReader(fn)
  IN IF ReaderOk(first, d)
       THEN [ok |-> TRUE, calls |-> <<[op |-> first, ok |-> TRUE]>>]
       ELSE [ok |-> ReaderOk("read_csv_latin1", d),
             calls |-> <<[op |-> first, ok |-> FALSE],
                         [op |-> "read_csv_latin1",
                          ok |-> ReaderOk("read_csv_latin1", d)]>>]

(* ------------------------------ normalize ----------------------------- *)
\* lines 132-134
TruncateColumns(t) ==
  IF Len(t.hdr) > MAX_COLS
    THEN [hdr  |-> Take(t.hdr, MAX_COLS),
          rows |-> [i \in 1..Len(t.rows) |-> Take(t.rows[i], MAX_COLS)]]
    ELSE t

\* line 136: replace([inf, -inf], None), then fillna("")
ReplaceInf(v) == IF v.k \in {"inf", "-inf"} THEN [v EXCEPT !.k = "nan"] ELSE v
FillNa(v) == IF v.k = "nan" THEN Blank ELSE v
Sanitize(t) ==
  [hdr  |-> t.hdr,
   rows |-> [i \in 1..Len(t.rows) |->
              [j \in 1..Len(t.rows[i]) |-> FillNa(ReplaceInf(t.rows[i][j]))]]]

\* str(c)
Str(v) == [v EXCEPT !.k = "str"]

\* lines 138-139
ValuesOf(t) == <<[j \in 1..Len(t.hdr) |-> Str(t.hdr[j])]>> \o t.rows

\* line 161
Trimmed(vals) == [i \in 1..Len(vals) |-> Take(vals[i], MAX_COLS)]

(* ------------------------------ worksheet ----------------------------- *)
EmptyCells == [p \in {} |-> Blank]
NoWs == [exists |-> FALSE, rows |-> 0, cols |-> 0, cells |-> EmptyCells]

CellAt(w, r, c) == IF <<r, c>> \in DOMAIN w.cells THEN w.cells[<<r, c>>] ELSE Blank

\* column index of a column letter in A1 notation
ColIndex(letter) == letter - 64

A1Z_RANGE  == [c1 |-> 65, r1 |-> 1, c2 |-> 90]
START_CELL == [c |-> 65, r |-> 1]
CELL_A1    == [c |-> 65, r |-> 1]
CELL_E1    == [c |-> 69, r |-> 1]
CELL_D1    == [c |-> 68, r |-> 1]

\* sh.add_worksheet(title, rows, cols): a blank grid
add_worksheet(nrows, ncols) ==
  [exists |-> TRUE, rows |-> nrows, cols |-> ncols, cells |-> EmptyCells]

\* line 145
CreateRows(vals) == Max(CreateMinRows, Len(vals) + CreatePadRows)

\* the range read as its first row alone
ClearFirstRowOnly(w, rg) ==
  LET keep == {p \in DOMAIN w.cells :
                 ~(/\ p[1] = rg.r1
                   /\ p[2] >= ColIndex(rg.c1)
                   /\ p[2] <= ColIndex(rg.c2))}
  IN [w EXCEPT !.cells = [p \in keep |-> w.cells[p]]]

\* ws.batch_clear([range]) and values_clear(range): every value of the
\* range's columns, from its first row down, becomes blank
ClearRange(w, rg) ==
  LET keep == {p \in DOMAIN w.cells :
                 ~(/\ p[1] >= rg.r1
                   /\ p[2] >= ColIndex(rg.c1)
                   /\ p[2] <= ColIndex(rg.c2))}
  IN [w EXCEPT !.cells = [p \in keep |-> w.cells[p]]]

\* ws.add_rows(k)
add_rows(w, k) == [w EXCEPT !.rows = w.rows + k]

\* the header row left out of the rows needed
ResizedWithoutHeader(w, vals) ==
  LET needed_rows == Len(vals) - 1
  IN IF w.rows < needed_rows THEN [w EXCEPT !.rows = needed_rows] ELSE w

\* lines 155-157
Resized(w, vals) ==
  LET needed_rows == Len(vals)
  IN IF w.rows < needed_rows THEN add_rows(w, needed_rows - w.rows) ELSE w

\* ws.update(cell, rows): the rows are written from the cell rightwards and
\* downwards; '' leaves the cell blank
UpdateFits(w, cell, rws) ==
  \A i \in 1..Len(rws) :
     /\ cell.r + i - 1 <= w.rows
     /\ ColIndex(cell.c) + Len(rws[i]) - 1 <= w.cols

update(w, cell, rws) ==
  LET r0  == cell.r
      c0  == ColIndex(cell.c)
      tgt == UNION {{<<r0 + i - 1, c0 + j - 1>> : j \in 1..Len(rws[i])} :
                      i \in 1..Len(rws)}
      val(p) == rws[p[1] - r0 + 1][p[2] - c0 + 1]
      set == {p \in tgt : val(p) # Blank}
      keep == DOMAIN w.cells \ tgt
  IN [w EXCEPT !.cells =
        [p \in keep \cup set |-> IF p \in set THEN val(p) ELSE w.cells[p]]]

\* ws.insert_row(row, index): a sheet row is inserted at index, every row
\* from index on moves down by one across all columns, and the given values
\* are written into the new row
insert_row(w, row, index) ==
  LET moved == {<<IF p[1] >= index THEN p[1] + 1 ELSE p[1], p[2]>> :
                  p \in DOMAIN w.cells}
      shifted == [w EXCEPT
                    !.rows = w.rows + 1,
                    !.cells = [p \in moved |->
                                 IF p[1] > index THEN w.cells[<<p[1] - 1, p[2]>>]
                                 ELSE w.cells[p]]]
  IN update(shifted, [c |-> 65, r |-> index], <<row>>)

\* line 167: [''] * MAX_COLS
BlankRow == [j \in 1..MAX_COLS |-> Blank]

\* lines 170-171 and 175: the two annotation strings
Timestamp(t) == V("Report synced at", t, 0, <<>>)
SourceNote(fn) == V("Source file name:", 0, 0, fn)

(* --------------------------- the five steps --------------------------- *)
\* lines 149-152 (either call clears the same range of the same worksheet)
StepClear(w) == ClearRange(w, A1Z_RANGE)
\* lines 155-157
StepResize(w, vals) == Resized(w, vals)
\* lines 161-163
StepWrite(w, vals) ==
  IF Trimmed(vals) # <<>> THEN update(w, START_CELL, Trimmed(vals)) ELSE w
\* line 167
StepInsert(w) == insert_row(w, BlankRow, 1)
\* line 172
StepTimestamp(w, t) == update(w, CELL_A1, <<<<Timestamp(t)>>>>)
\* line 175
StepSource(w, fn) == update(w, CELL_D1, <<<<SourceNote(fn)>>>>)

\* lines 132-139 on a parsed DataFrame
Normalized(t) == ValuesOf(Sanitize(TruncateColumns(t)))

(* ------------------ the worksheet an earlier run left ------------------ *)
\* a worksheet somebody filled before: every cell outside columns A..Z
\* holds a value that tells its position, and so does every cell of the
\* window when stale
OldSheet(nrows, ncols, stale) ==
  LET pos == {p \in (1..nrows) \X (1..ncols) : stale \/ p[2] > MAX_COLS}
  IN [exists |-> TRUE, rows |-> nrows, cols |-> ncols,
      cells |-> [p \in pos |-> V("old", p[1], p[2], <<>>)]]

BaseSheets ==
  {NoWs,
   OldSheet(1, MAX_COLS, TRUE),
   OldSheet(MaxRows + 2, MAX_COLS + ExtraCols, TRUE),
   OldSheet(MaxRows + 2, MAX_COLS + ExtraCols, FALSE)}

\* the worksheet after the first k steps (0..6) of a run of main() that
\* synced vals from file fn at display time t
AfterSteps(base, vals, fn, t, k) ==
  LET w0 == IF base.exists THEN base
            ELSE add_worksheet(CreateRows(vals), MAX_COLS)
      w1 == IF k >= 1 THEN StepClear(w0) ELSE w0
      w2 == IF k >= 2 THEN StepResize(w1, vals) ELSE w1
      w3 == IF k >= 3 THEN StepWrite(w2, vals) ELSE w2
      w4 == IF k >= 4 THEN StepInsert(w3) ELSE w3
      w5 == IF k >= 5 THEN StepTimestamp(w4, t) ELSE w4
  IN IF k >= 6 THEN StepSource(w5, fn) ELSE w5

NoPrev == [steps |-> 0, values |-> <<>>, filename |-> NoName, now |-> 0]

PriorNames == {NameA}

\* what the run finds at the destination: an untouched base sheet, or what
\* an earlier run left after k of its steps
Priors ==
  {[prev |-> NoPrev, ws |-> b] : b \in BaseSheets}
  \cup
  {[prev |-> IF k = 6
               THEN [steps |-> 6, values |-> Normalized(MkTable(s[1], s[2])),
                     filename |-> fn, now |-> t]
               ELSE [steps |-> k, values |-> <<>>, filename |-> NoName, now |-> 0],
    ws |-> AfterSteps(b, Normalized(MkTable(s[1], s[2])), fn, t, k)] :
     b \in BaseSheets, s \in Shapes, fn \in PriorNames, t \in 1..MaxNow, k \in 1..6}

(* ------------------------------- state -------------------------------- *)
NoCand == <<NoName, None, 0>>

Init ==
  /\ pc = "start"
  /\ names = {}
  /\ candidates = {}
  /\ newest = NoCand
  /\ filename = NoName
  /\ data = NoData
  /\ parsed = NoTable
  /\ df = NoTable
  /\ values = <<>>
  /\ ws = NoWs
  /\ ws0 = NoWs
  /\ prev = NoPrev
  /\ now = 0
  /\ ops = <<>>

Call(op, ok) == [op |-> op, ok |-> ok]

\* an exception reaches line 178 and is raised again: non-zero exit
Raised == "failed"

(* ------------------------------ actions ------------------------------- *)
\* lines 86-88
Connect ==
  /\ pc = "start"
  /\ \E ok \in BOOLEAN :
       /\ pc' = IF ok THEN "connected" ELSE Raised
       /\ ops' = Append(ops, Call("connect", ok))
  /\ UNCHANGED <<names, candidates, newest, filename, data, parsed, df, values,
                 ws, ws0, prev, now>>

\* lines 90-95: nlst(), or the last word of each LIST line when nlst fails
ListDir ==
  /\ pc = "connected"
  /\ \E listing \in SUBSET AllNames, nlstOk \in BOOLEAN, listOk \in BOOLEAN :
       IF nlstOk \/ listOk
         THEN /\ names' = listing
              /\ pc' = "listed"
              /\ ops' = ops \o (IF nlstOk THEN <<Call("nlst", TRUE)>>
                                ELSE <<Call("nlst", FALSE), Call("LIST", TRUE)>>)
         ELSE /\ names' = names
              /\ pc' = Raised
              /\ ops' = ops \o <<Call("nlst", FALSE), Call("LIST", FALSE)>>
  /\ UNCHANGED <<candidates, newest, filename, data, parsed, df, values,
                 ws, ws0, prev, now>>

SupportedExts == {ExtCsv, ExtTxt, ExtXls, ExtXlsx}

\* lines 99-103
Listable(n) == n \notin {NameDot, NameDotDot} /\ Lower(SplitExt(n)) \in SupportedExts

\* what the server answers to SIZE and MDTM for one file
Mdtms == {None} \cup {<<t>> : t \in 0..MaxTime}
Answers == {[sizeOk |-> FALSE, mdtm |-> None]}
           \cup {[sizeOk |-> TRUE, mdtm |-> m] : m \in Mdtms}

\* the size query left unguarded: its failure ends the run
BuildCandidatesUnguarded ==
  /\ pc = "listed"
  /\ \E q \in [{n \in names : Listable(n)} -> Answers] :
       /\ candidates' = {<<n, q[n].mdtm, Len(n)>> : n \in {m \in DOMAIN q : q[m].sizeOk}}
       /\ pc' = IF \A n \in DOMAIN q : q[n].sizeOk THEN "scanned" ELSE Raised
  /\ UNCHANGED <<names, newest, filename, data, parsed, df, values,
                 ws, ws0, prev, now, ops>>

\* lines 97-109
BuildCandidates ==
  /\ pc = "listed"
  /\ \E q \in [{n \in names : Listable(n)} -> Answers] :
       candidates' = {<<n, q[n].mdtm, Len(n)>> : n \in {m \in DOMAIN q : q[m].sizeOk}}
  /\ pc' = "scanned"
  /\ UNCHANGED <<names, newest, filename, data, parsed, df, values,
                 ws, ws0, prev, now, ops>>

\* lines 111-114
NoCandidates ==
  /\ pc = "scanned"
  /\ candidates = {}
  /\ \E ok \in BOOLEAN :
       /\ pc' = IF ok THEN "returned" ELSE Raised
       /\ ops' = Append(ops, Call("quit", ok))
  /\ UNCHANGED <<names, candidates, newest, filename, data, parsed, df, values,
                 ws, ws0, prev, now>>

\* lines 116-122
Select ==
  /\ pc = "scanned"
  /\ candidates # {}
  /\ newest' = SelectLatest(candidates)
  /\ filename' = newest'[1]
  /\ pc' = "selected"
  /\ UNCHANGED <<names, candidates, data, parsed, df, values, ws, ws0, prev, now, ops>>

\* lines 124-127; the listing is not read again after line 122
Retrieve ==
  /\ pc = "selected"
  /\ \E retrOk \in BOOLEAN, quitOk \in BOOLEAN, d \in DataSet :
       IF retrOk /\ quitOk
         THEN /\ data' = d
              /\ pc' = "retrieved"
              /\ ops' = ops \o <<Call("retrbinary", TRUE), Call("quit", TRUE)>>
         ELSE /\ data' = data
              /\ pc' = Raised
              /\ ops' = ops \o (IF retrOk
                                  THEN <<Call("retrbinary", TRUE), Call("quit", FALSE)>>
                                  ELSE <<Call("retrbinary", FALSE)>>)
  /\ names' = {}
  /\ candidates' = {}
  /\ newest' = NoCand
  /\ UNCHANGED <<filename, parsed, df, values, ws, ws0, prev, now>>

\* lines 129-130
LoadDf ==
  /\ pc = "retrieved"
  /\ LET r == load_df_from_bytes(filename, data)
     IN /\ ops' = ops \o r.calls
        /\ pc' = IF r.ok THEN "loaded" ELSE Raised
        /\ df' = IF r.ok THEN MkTable(data.nr, data.nc) ELSE df
        /\ parsed' = df'
  /\ data' = NoData
  /\ UNCHANGED <<names, candidates, newest, filename, values, ws, ws0, prev, now>>

\* lines 132-139
Normalize ==
  /\ pc = "loaded"
  /\ df' = Sanitize(TruncateColumns(df))
  /\ parsed' = parsed
  /\ values' = ValuesOf(df')
  /\ pc' = "normalized"
  /\ UNCHANGED <<names, candidates, newest, filename, data, ws, ws0, prev, now, ops>>

\* lines 141-145
OpenWorksheet ==
  /\ pc = "normalized"
  /\ \E okOpen \in BOOLEAN, okWs \in BOOLEAN, found \in Priors :
       IF ~okOpen
         THEN /\ ops' = Append(ops, Call("open_by_key", FALSE))
              /\ pc' = Raised
              /\ UNCHANGED <<ws, ws0, prev>>
         ELSE IF found.ws.exists
           THEN /\ ops' = ops \o <<Call("open_by_key", TRUE), Call("worksheet", okWs)>>
                /\ pc' = IF okWs THEN "opened" ELSE Raised
                /\ ws' = IF okWs THEN found.ws ELSE ws
                /\ ws0' = ws'
                /\ prev' = IF okWs THEN found.prev ELSE prev
           ELSE /\ ops' = ops \o <<Call("open_by_key", TRUE), Call("add_worksheet", okWs)>>
                /\ pc' = IF okWs THEN "opened" ELSE Raised
                /\ ws' = IF okWs THEN add_worksheet(CreateRows(values), MAX_COLS) ELSE ws
                /\ ws0' = ws'
                /\ prev' = prev
  /\ UNCHANGED <<names, candidates, newest, filename, data, parsed, df, values, now>>

\* lines 147-152
Clear ==
  /\ pc = "opened"
  /\ \E ok \in BOOLEAN, okFallback \in BOOLEAN :
       /\ ops' = ops \o (IF ok THEN <<Call("batch_clear", TRUE)>>
                         ELSE <<Call("batch_clear", FALSE),
                                Call("values_clear", okFallback)>>)
       /\ pc' = IF ok \/ okFallback THEN "cleared" ELSE Raised
       /\ ws' = IF ok \/ okFallback THEN StepClear(ws) ELSE ws
  /\ UNCHANGED <<names, candidates, newest, filename, data, parsed, df, values,
                 ws0, prev, now>>

\* lines 154-157
Resize ==
  /\ pc = "cleared"
  /\ IF ws.rows < Len(values)
       THEN \E ok \in BOOLEAN :
              /\ ops' = Append(ops, Call("add_rows", ok))
              /\ pc' = IF ok THEN "resized" ELSE Raised
              /\ ws' = IF ok THEN StepResize(ws, values) ELSE ws
       ELSE /\ ops' = ops
            /\ pc' = "resized"
            /\ ws' = StepResize(ws, values)
  /\ UNCHANGED <<names, candidates, newest, filename, data, parsed, df, values,
                 ws0, prev, now>>

\* the failure of the data write swallowed
WriteSwallowed ==
  /\ pc = "resized"
  /\ \E ok \in BOOLEAN :
       LET done == ok /\ UpdateFits(ws, START_CELL, Trimmed(values))
       IN /\ ops' = Append(ops, Call("update_values", done))
          /\ pc' = "written"
          /\ ws' = IF done THEN StepWrite(ws, values) ELSE ws
  /\ UNCHANGED <<names, candidates, newest, filename, data, parsed, df, values,
                 ws0, prev, now>>

\* lines 159-163; a range beyond the grid is refused by the service
Write ==
  /\ pc = "resized"
  /\ IF Trimmed(values) # <<>>
       THEN \E ok \in BOOLEAN :
              LET done == ok /\ UpdateFits(ws, START_CELL, Trimmed(values))
              IN /\ ops' = Append(ops, Call("update_values", done))
                 /\ pc' = IF done THEN "written" ELSE Raised
                 /\ ws' = IF done THEN StepWrite(ws, values) ELSE ws
       ELSE /\ ops' = ops
            /\ pc' = "written"
            /\ ws' = ws
  /\ UNCHANGED <<names, candidates, newest, filename, data, parsed, df, values,
                 ws0, prev, now>>

\* lines 165-167
InsertBlankRow ==
  /\ pc = "written"
  /\ \E ok \in BOOLEAN :
       /\ ops' = Append(ops, Call("insert_row", ok))
       /\ pc' = IF ok THEN "inserted" ELSE Raised
       /\ ws' = IF ok THEN StepInsert(ws) ELSE ws
  /\ UNCHANGED <<names, candidates, newest, filename, data, parsed, df, values,
                 ws0, prev, now>>

\* lines 169-172
AnnotateTimestamp ==
  /\ pc = "inserted"
  /\ \E t \in 1..MaxNow, ok \in BOOLEAN :
       /\ now' = t
       /\ ops' = Append(ops, Call("update_A1", ok))
       /\ pc' = IF ok THEN "stamped" ELSE Raised
       /\ ws' = IF ok THEN StepTimestamp(ws, t) ELSE ws
  /\ UNCHANGED <<names, candidates, newest, filename, data, parsed, df, values,
                 ws0, prev>>

\* lines 174-177
AnnotateSource ==
  /\ pc = "stamped"
  /\ \E ok \in BOOLEAN :
       /\ ops' = Append(ops, Call("update_D1", ok))
       /\ pc' = IF ok THEN "done" ELSE Raised
       /\ ws' = IF ok THEN StepSource(ws, filename) ELSE ws
  /\ UNCHANGED <<names, candidates, newest, filename, data, parsed, df, values,
                 ws0, prev, now>>

Next ==
  \/ Connect
  \/ ListDir
  \/ BuildCandidates
  \/ NoCandidates
  \/ Select
  \/ Retrieve
  \/ LoadDf
  \/ Normalize
  \/ OpenWorksheet
  \/ Clear
  \/ Resize
  \/ Write
  \/ InsertBlankRow
  \/ AnnotateTimestamp
  \/ AnnotateSource

Spec == Init /\ [][Next]_vars

(* ------------------------- reading the call log ----------------------- *)
Called(op) == \E i \in DOMAIN ops : ops[i].op = op
Succeeded(op) == \E i \in DOMAIN ops : ops[i].op = op /\ ops[i].ok
FailedCall(op) == \E i \in DOMAIN ops : ops[i].op = op /\ ~ops[i].ok

MutationCalls == <<"batch_clear", "values_clear", "add_rows", "update_values",
                   "insert_row", "update_A1", "update_D1">>
Rank(op) == CHOOSE i \in DOMAIN MutationCalls : MutationCalls[i] = op
IsMutation(c) == \E i \in DOMAIN MutationCalls : MutationCalls[i] = c.op
WorksheetCalls == {"open_by_key", "worksheet", "add_worksheet"}
                  \cup {MutationCalls[i] : i \in DOMAIN MutationCalls}
ParserCalls == {"read_csv", "read_excel", "read_csv_latin1"}

ClearDone == Succeeded("batch_clear") \/ Succeeded("values_clear")
Window == 1..MAX_COLS

(* ------------------------------- claims ------------------------------- *)

\* C1: the mutation calls are made in the order clear (batch_clear, then
\* values_clear only after batch_clear failed), add_rows, data write,
\* insert_row, A1 annotation, D1 annotation; a call is made only after the
\* step before it completed; a failed call (for the clear: a failed
\* fallback) is the last call of the run and the run ends failed; and when
\* the clear succeeded and the data write failed, no insert_row and no
\* annotation call was made and the run is in the failed state.
C1_StepsInOrderAndAbort ==
  /\ \A i, j \in DOMAIN ops :
       (i < j /\ IsMutation(ops[i]) /\ IsMutation(ops[j]))
         => Rank(ops[i].op) < Rank(ops[j].op)
  /\ \A i \in DOMAIN ops :
       (IsMutation(ops[i]) /\ ~ops[i].ok) =>
         IF ops[i].op = "batch_clear"
           THEN i < Len(ops) /\ ops[i + 1].op = "values_clear"
           ELSE i = Len(ops) /\ pc = Raised
  /\ Called("values_clear") => FailedCall("batch_clear")
  /\ Called("add_rows") => ClearDone
  /\ Called("update_values") => ClearDone /\ ws.rows >= Len(values)
  /\ Called("insert_row") => Succeeded("update_values")
  /\ Called("update_A1") => Succeeded("insert_row")
  /\ Called("update_D1") => Succeeded("update_A1")
  /\ pc = "done" => Succeeded("update_D1")
  /\ (ClearDone /\ FailedCall("update_values")) =>
       /\ ~Called("insert_row") /\ ~Called("update_A1") /\ ~Called("update_D1")
       /\ pc = Raised

\* C1: the clear succeeded, the data write failed, the run is failed
C1_Witness == ClearDone /\ FailedCall("update_values") /\ pc = Raised

\* C2: with candidates at hand, the chosen descriptor is, when some
\* candidate has a modification time, one with a modification time, of the
\* greatest time, and among those of that time the one with the greatest
\* name (so never a descriptor without a time); when none has a time, the
\* one with the greatest name.
C2_SelectLatestAsSpecified ==
  pc = "selected" =>
    /\ newest \in candidates
    /\ IF \E c \in candidates : c[2] # None
         THEN /\ newest[2] # None
              /\ \A d \in candidates :
                   d[2] # None =>
                     /\ d[2][1] <= newest[2][1]
                     /\ d[2][1] = newest[2][1] => ~LexLess(newest[1], d[1])
         ELSE \A d \in candidates : ~LexLess(newest[1], d[1])

\* a step of a run: the candidates loop always reaches its end; with no
\* candidate the session is closed, nothing else changes, and the run ends
NoEligibleStep ==
  /\ pc = "listed" => pc' = "scanned"
  /\ (pc = "scanned" /\ candidates = {}) =>
       /\ \E ok \in BOOLEAN :
            /\ ops' = Append(ops, Call("quit", ok))
            /\ pc' = IF ok THEN "returned" ELSE Raised
       /\ UNCHANGED <<data, parsed, df, values, ws>>
  /\ pc # "returned"

\* a run that returned for want of candidates made no retrieval, parser or
\* worksheet call
NoEligibleQuiet ==
  pc = "returned" =>
    /\ \A i \in DOMAIN ops :
         ops[i].op \notin WorksheetCalls \cup ParserCalls \cup {"retrbinary"}
    /\ ws = NoWs /\ parsed = NoTable /\ data = NoData

\* C3 as amended: a failed size query never aborts the run; when no listed
\* file is eligible the only call still made is the closing of the FTP
\* session, nothing is retrieved, parsed or done to a worksheet, the run
\* ends there, and it ends failed only when that closing call fails.
C3_NoEligibleIsNoOp == []NoEligibleQuiet /\ [][NoEligibleStep]_vars

\* C3: a run returned although eligible names were listed (their size
\* queries failed) beside ineligible ones
C3_Witness ==
  /\ pc = "returned"
  /\ \E n \in names : Listable(n)
  /\ \E n \in names : ~Listable(n)

\* as NoEligibleStep, but the run with no candidate may not end failed
NoEligibleNeverFails ==
  /\ pc = "listed" => pc' = "scanned"
  /\ (pc = "scanned" /\ candidates = {}) =>
       /\ pc' # Raised
       /\ UNCHANGED <<data, parsed, df, values, ws>>
  /\ pc # "returned"

\* C3 as claimed: with no eligible file nothing is retrieved, parsed or
\* done to a worksheet, a failed size query never aborts the run, and the
\* run never ends in the failed state.
C3_Original == []NoEligibleQuiet /\ [][NoEligibleNeverFails]_vars

\* what the window holds at (r, c) after a complete sync of vals from file
\* fn at display time t, with the source note in column col of row 1
ExpectedCell(vals, fn, t, col, r, c) ==
  IF r = 1
    THEN IF c = 1 THEN Timestamp(t)
         ELSE IF c = col THEN SourceNote(fn)
         ELSE Blank
    ELSE IF r - 1 <= Len(vals) /\ c <= Len(vals[r - 1])
           THEN vals[r - 1][c]
           ELSE Blank

\* C4: after a run that completed all five steps, every cell of columns
\* A..Z is what the synced values, the filename and the display time
\* determine: row 1 holds the two annotations and nothing else, rows 2 to
\* 2 + rowCount hold the header and the data rows, every other cell is
\* blank, whatever the worksheet held before.
C4_WindowFullyReplaced ==
  pc = "done" =>
    /\ Len(values) = 1 + Len(parsed.rows)
    /\ \A p \in DOMAIN ws.cells : p[1] \in 1..ws.rows /\ p[2] \in 1..ws.cols
    /\ \A r \in 1..ws.rows, c \in Window :
         CellAt(ws, r, c) = ExpectedCell(values, filename, now, 4, r, c)

\* C4: the run completed on a worksheet an aborted run had left, with a
\* stale window cell below the new table's extent
C4_Witness ==
  /\ pc = "done"
  /\ \E p \in DOMAIN ws0.cells : p[2] \in Window /\ p[1] > Len(values) + 1
  /\ prev.steps \in 1..5

\* C5 as amended: after a successful sync A1 holds the "synced at" string
\* and D1, three columns to its right, the source filename string; both
\* were written after the blank-row insertion, into a row that holds
\* nothing else in columns A..Z; the header row is in row 2 from column 1.
C5_AnnotationsInA1AndD1 ==
  pc = "done" =>
    /\ CellAt(ws, 1, 1) = Timestamp(now)
    /\ CellAt(ws, 1, 1 + 3) = SourceNote(filename)
    /\ \A c \in Window \ {1, 1 + 3} : CellAt(ws, 1, c) = Blank
    /\ \A i, j \in DOMAIN ops :
         (ops[i].op = "insert_row" /\ ops[j].op \in {"update_A1", "update_D1"})
           => i < j /\ ops[i].ok
    /\ \A c \in 1..Len(values[1]) : CellAt(ws, 2, c) = values[1][c]
    /\ Len(values[1]) = Min(Len(parsed.hdr), MAX_COLS)

\* C5: a sync with data rows completed on a worksheet that held values
C5_Witness == pc = "done" /\ Len(values) > 1 /\ ws0.cells # EmptyCells

\* C5 as claimed: the source filename string is four columns to the right
\* of the first cell.
C5_Original ==
  pc = "done" =>
    /\ CellAt(ws, 1, 1) = Timestamp(now)
    /\ CellAt(ws, 1, 1 + 4) = SourceNote(filename)

\* the parser calls of the run, in order
ParserLog == SelectSeq(ops, LAMBDA c : c.op \in ParserCalls)

\* C6: the first reader is read_excel for .xls/.xlsx and read_csv for every
\* other extension; a failed read_csv is followed by exactly one latin1
\* retry; a failed read_excel is followed by no other reader and the run
\* ends failed; after a failed parse no worksheet call is made.
C6_ParseDispatchAndRetry ==
  LET log == ParserLog
      ext == Lower(SplitExt(filename))
  IN log # <<>> =>
       /\ log[1].op = IF ext \in {ExtXls, ExtXlsx} THEN "read_excel" ELSE "read_csv"
       /\ log[1].ok => Len(log) = 1
       /\ (log[1].op = "read_csv" /\ ~log[1].ok) =>
            /\ Len(log) = 2
            /\ log[2].op = "read_csv_latin1"
       /\ (log[1].op = "read_excel" /\ ~log[1].ok) =>
            /\ Len(log) = 1
            /\ pc = Raised
       /\ ~log[Len(log)].ok =>
            /\ pc = Raised
            /\ \A i \in DOMAIN ops : ops[i].op \notin WorksheetCalls
            /\ ws = NoWs

\* the value the destination shows for a parsed data cell
Cleaned(v) == IF v.k \in {"nan", "inf", "-inf"} THEN Blank ELSE v

\* C7: when the parsed table has more than 26 columns, each row handed to
\* the data write (header included) has exactly 26 cells, cell j being the
\* table's cell of column j (the label as a string, a non-finite or missing
\* value as blank); a table of at most 26 columns keeps its column count;
\* and no worksheet cell ever holds a table cell of a column beyond the
\* 26th.
C7_OnlyFirst26Columns ==
  /\ pc = "resized" =>
       LET rows == Trimmed(values)
           n == Len(parsed.hdr)
           w == IF n > 26 THEN 26 ELSE n
       IN /\ Len(rows) = 1 + Len(parsed.rows)
          /\ \A i \in DOMAIN rows : Len(rows[i]) = w
          /\ \A j \in 1..w : rows[1][j] = [parsed.hdr[j] EXCEPT !.k = "str"]
          /\ \A i \in DOMAIN parsed.rows : \A j \in 1..w :
               rows[i + 1][j] = Cleaned(parsed.rows[i][j])
  /\ \A p \in DOMAIN ws.cells :
       ws.cells[p].k \in {"cell", "str", "num", "nan", "inf", "-inf"}
         => ws.cells[p].b <= 26 /\ p[2] <= 26

\* C7: a table of more than 26 columns was written
C7_Witness ==
  /\ pc = "written"
  /\ Len(parsed.hdr) > 26
  /\ Len(parsed.rows) > 0
  /\ CellAt(ws, 2, 26) = Cleaned(parsed.rows[1][26])

\* C8: when the worksheet was left by a complete run and this run syncs
\* the same values from the same file at the same display time, the
\* finished run leaves every cell of columns A..Z and the worksheet's row
\* count as it found them.
C8_SecondRunChangesNothing ==
  (/\ pc = "done"
   /\ prev.steps = 6
   /\ prev.values = values /\ prev.filename = filename /\ prev.now = now)
  => /\ \A r \in 1..Max(ws.rows, ws0.rows), c \in Window :
          CellAt(ws, r, c) = CellAt(ws0, r, c)
     /\ ws.rows = ws0.rows

\* the worksheet was created by this run
Created == Succeeded("add_worksheet")

\* C9 as amended: when the data write is about to run, the worksheet has
\* at least 1 + rowCount rows; the resize called add_rows exactly when the
\* worksheet had fewer, and left it with the larger of its former row
\* count and 1 + rowCount; a worksheet created by the run is a blank grid
\* of max(100, rowCount + 11) rows and 26 columns.
C9_RowCapacity ==
  /\ pc = "resized" =>
       /\ ws.rows >= 1 + Len(parsed.rows)
       /\ ws.rows = Max(ws0.rows, 1 + Len(parsed.rows))
       /\ Called("add_rows") <=> ws0.rows < 1 + Len(parsed.rows)
  /\ FailedCall("add_rows") => ws.rows = ws0.rows /\ ws0.rows < 1 + Len(parsed.rows)
  /\ Created =>
       /\ ws0.rows = Max(100, Len(parsed.rows) + 11)
       /\ ws0.cols = 26
       /\ ws0.cells = EmptyCells

\* C9: the resize added rows
C9_Witness ==
  /\ pc = "resized"
  /\ Succeeded("add_rows")
  /\ ws.rows > ws0.rows

\* C9 as claimed: a created worksheet has max(100, rowCount + 10) rows.
C9_Original ==
  /\ pc = "resized" =>
       /\ ws.rows >= 1 + Len(parsed.rows)
       /\ ws.rows = Max(ws0.rows, 1 + Len(parsed.rows))
  /\ Created =>
       /\ ws0.rows = Max(100, Len(parsed.rows) + 10)
       /\ ws0.cols = 26

\* C10: from the opening of the worksheet on, every position outside
\* columns A..Z holds the value it held when the run opened the worksheet.
C10_OutsideWindowUntouched ==
  \A p \in DOMAIN ws.cells \cup DOMAIN ws0.cells :
     p[2] > MAX_COLS => CellAt(ws, p[1], p[2]) = CellAt(ws0, p[1], p[2])

====
